---- MODULE Spec2Model ----
(***************************************************************************)
(* Model of the portfolio script of PoojithaYelkur/My-Portfolio.           *)
(*                                                                         *)
(* The repository holds two versions of the script: src/app.js and the     *)
(* "PATCHED / FINAL" version src/unnamed/part_000.  The variable `variant` *)
(* says which one the page loads ("app" or "patched"); every operation     *)
(* whose code differs between the two has one definition per version (the  *)
(* patched one carries the suffix Patched).                                *)
(*                                                                         *)
(* Strings are sequences of one-character strings, so that toLowerCase,    *)
(* includes, replace, slice, atob, encodeURIComponent and the URL parser   *)
(* are computed on characters, as the code computes them.                  *)
(***************************************************************************)
EXTENDS Integers, Sequences, FiniteSets, TLC

VARIABLES
    variant,        \* which script the page loads: "app" | "patched"
    FEATURED,       \* app.js:22 / part_000:25, the manual featured override
    pc,             \* position of init() / of the driver of a pure function
    repos,          \* the repository list held by init()
    featured,       \* result of pickFeatured(repos)
    net,            \* the fetch() calls that have not been answered yet
    listRequests,   \* number of requests sent to the repository-list endpoint
    readmeRequests, \* number of requests sent to a README endpoint
    section,        \* the render loop that is suspended: "featured" | "all" | "none"
    idx,            \* index of the repository that loop is working on
    featuredGrid,   \* cards of #featured-grid
    categories,     \* groups of #categories
    projects,       \* cards of #projects
    banners,        \* the .note banners of #main, first is topmost
    listResponse,   \* the answer to the repository-list request
    response,       \* the README response fetchReadmeSnippet handles
    snippet,        \* what fetchReadmeSnippet returned
    card,           \* the card whose controls the user operates
    opened          \* the URLs handed to window.open, in order

cfgVars == <<variant, FEATURED>>
listVars == <<repos, featured>>
pipeVars ==
    <<net, listRequests, readmeRequests, section, idx,
      featuredGrid, categories, projects, banners, listResponse>>
snippetVars == <<response, snippet>>
linkVars == <<card, opened>>

vars == <<cfgVars, pc, listVars, pipeVars, snippetVars, linkVars>>

(***************************************************************************)
(* Characters and strings                                                  *)
(***************************************************************************)
UpperChars ==
    <<"A","B","C","D","E","F","G","H","I","J","K","L","M",
      "N","O","P","Q","R","S","T","U","V","W","X","Y","Z">>

LowerChars ==
    <<"a","b","c","d","e","f","g","h","i","j","k","l","m",
      "n","o","p","q","r","s","t","u","v","w","x","y","z">>

\* position of the first occurrence of c in the sequence s, 0 when absent
IndexOf(s, c) ==
    IF \E i \in 1..Len(s) : s[i] = c
    THEN CHOOSE i \in 1..Len(s) : s[i] = c /\ \A j \in 1..(i-1) : s[j] # c
    ELSE 0

\* the lower-case letter of every upper-case letter
LowerMap ==
    [c \in {UpperChars[i] : i \in 1..Len(UpperChars)} |->
        LowerChars[IndexOf(UpperChars, c)]]

LowerChar(c) == IF c \in DOMAIN LowerMap THEN LowerMap[c] ELSE c

\* String.prototype.toLowerCase
toLowerCase(s) == [i \in 1..Len(s) |-> LowerChar(s[i])]

\* String.prototype.includes
includes(s, sub) ==
    \E i \in 0..(Len(s) - Len(sub)) : SubSeq(s, i + 1, i + Len(sub)) = sub

\* Array.prototype.includes
arrayIncludes(arr, x) == \E i \in 1..Len(arr) : arr[i] = x

\* Array.prototype.slice(0, n)
slice0(arr, n) == SubSeq(arr, 1, IF Len(arr) < n THEN Len(arr) ELSE n)

\* featured.find(f => f.id === r.id) is truthy
findById(arr, r) == \E i \in 1..Len(arr) : arr[i].id = r.id

(***************************************************************************)
(* Featured selection                                                      *)
(***************************************************************************)
FeaturedLimit == 3

FeaturedTag ==
    <<"p","o","r","t","f","o","l","i","o","-","f","e","a","t","u","r","e","d">>

\* the number NaN; every other number of the model is 0 or more
NaN == -1

\* new Date(r.updated_at).getTime() / 1000 ; updated_at is held as the
\* milliseconds the Date parse yields (GitHub timestamps are whole seconds),
\* NaN for a string that is no date
epochSeconds(r) == IF r.updated_at = NaN THEN NaN ELSE r.updated_at \div 1000

\* a - b as the comparator of Array.prototype.sort returns it and sort reads
\* it: a NaN result counts as +0
minus(a, b) == IF a = NaN \/ b = NaN THEN 0 ELSE a - b

\* score with the stars not weighted
scoreUnweighted(r) == r.stargazers_count + epochSeconds(r)

\* app.js: (a.stargazers_count * 5) + (new Date(a.updated_at).getTime()/1000)
score(r) ==
    IF epochSeconds(r) = NaN THEN NaN ELSE (r.stargazers_count * 5) + epochSeconds(r)

\* part_000: (a.stargazers_count || 0) * 5 + new Date(a.updated_at).getTime() / 1000
scorePatched(r) ==
    IF epochSeconds(r) = NaN THEN NaN
    ELSE (IF r.stargazers_count = 0 THEN 0 ELSE r.stargazers_count) * 5 + epochSeconds(r)

\* [...repos].sort((a, b) => bScore - aScore) of app.js.  Array.prototype.sort
\* is stable (ECMAScript 2019): an element is placed after every element
\* the comparator does not put behind it.
RECURSIVE insertByScore(_, _)
insertByScore(sorted, x) ==
    IF sorted = <<>> THEN <<x>>
    ELSE IF minus(score(x), score(Head(sorted))) > 0
         THEN <<x>> \o sorted
         ELSE <<Head(sorted)>> \o insertByScore(Tail(sorted), x)

RECURSIVE sortByScore(_)
sortByScore(arr) ==
    IF arr = <<>> THEN <<>>
    ELSE insertByScore(sortByScore(SubSeq(arr, 1, Len(arr) - 1)), arr[Len(arr)])

\* [...repos].sort((a, b) => bScore - aScore) of part_000
RECURSIVE insertByScorePatched(_, _)
insertByScorePatched(sorted, x) ==
    IF sorted = <<>> THEN <<x>>
    ELSE IF minus(scorePatched(x), scorePatched(Head(sorted))) > 0
         THEN <<x>> \o sorted
         ELSE <<Head(sorted)>> \o insertByScorePatched(Tail(sorted), x)

RECURSIVE sortByScorePatched(_)
sortByScorePatched(arr) ==
    IF arr = <<>> THEN <<>>
    ELSE insertByScorePatched(sortByScorePatched(SubSeq(arr, 1, Len(arr) - 1)),
                              arr[Len(arr)])

\* FEATURED.map(s => s.toLowerCase())
lowerAll(names) == [i \in 1..Len(names) |-> toLowerCase(names[i])]

\* manualMatch with the repository name not lower-cased
manualMatchCaseSensitive(manual, r) == arrayIncludes(manual, r.name)

\* manual.includes(r.name.toLowerCase())
manualMatch(manual, r) == arrayIncludes(manual, toLowerCase(r.name))

\* repos.filter(r => manual.includes(r.name.toLowerCase()))
RECURSIVE filterManual(_, _)
filterManual(manual, rs) ==
    IF rs = <<>> THEN <<>>
    ELSE (IF manualMatch(manual, Head(rs)) THEN <<Head(rs)>> ELSE <<>>)
         \o filterManual(manual, Tail(rs))

\* nameMatch || topicMatch of the topic stage
tagMatch(r) ==
    \/ (r.name # <<>> /\ includes(toLowerCase(r.name), FeaturedTag))
    \/ \E i \in 1..Len(r.topics) : includes(toLowerCase(r.topics[i]), FeaturedTag)

\* repos.filter(r => nameMatch || topicMatch)
RECURSIVE filterTag(_)
filterTag(rs) ==
    IF rs = <<>> THEN <<>>
    ELSE (IF tagMatch(Head(rs)) THEN <<Head(rs)>> ELSE <<>>) \o filterTag(Tail(rs))

\* pushAllNew without the find: every topic match is pushed, chosen before or not
pushAllNoDedup(acc, items) == acc \o items

\* forEach(t => { if (!featured.find(f => f.id === t.id)) featured.push(t) })
RECURSIVE pushAllNew(_, _)
pushAllNew(acc, items) ==
    IF items = <<>> THEN acc
    ELSE pushAllNew(IF findById(acc, Head(items)) THEN acc
                    ELSE Append(acc, Head(items)), Tail(items))

\* for (const s of sorted) { if (length >= 3) break; if (!find) push(s) }
RECURSIVE pushUntilFull(_, _)
pushUntilFull(acc, items) ==
    IF items = <<>> \/ Len(acc) >= FeaturedLimit THEN acc
    ELSE pushUntilFull(IF findById(acc, Head(items)) THEN acc
                       ELSE Append(acc, Head(items)), Tail(items))

\* the topic stage of app.js
topicStage(acc, rs) ==
    IF Len(acc) < FeaturedLimit THEN pushAllNew(acc, filterTag(rs)) ELSE acc

\* the heuristic stage of app.js
heuristicStage(acc, rs) ==
    IF Len(acc) < FeaturedLimit THEN pushUntilFull(acc, sortByScore(rs)) ELSE acc

\* the heuristic stage of part_000
heuristicStagePatched(acc, rs) ==
    IF Len(acc) < FeaturedLimit THEN pushUntilFull(acc, sortByScorePatched(rs)) ELSE acc

pickFeatured(manualNames, rs) ==
    slice0(heuristicStage(topicStage(filterManual(lowerAll(manualNames), rs), rs), rs),
           FeaturedLimit)

pickFeaturedPatched(manualNames, rs) ==
    slice0(heuristicStagePatched(filterManual(lowerAll(manualNames), rs), rs),
           FeaturedLimit)

\* pickFeatured of the script the page loads
pickFeaturedOf(v, manualNames, rs) ==
    IF v = "app" THEN pickFeatured(manualNames, rs)
    ELSE pickFeaturedPatched(manualNames, rs)

(***************************************************************************)
(* Repository values.  The GitHub API gives every repository a unique id,  *)
(* a name unique for the owner, a valid updated_at and lower-case topics.  *)
(***************************************************************************)
MaxRepos == 4

Variants == {"app", "patched"}

Digits == <<"1","2","3","4","5","6","7","8","9">>

NamePlain == <<"l","i","b">>
NameManual == <<"D","e","m","o">>
NameTagged ==
    <<"M","y","-","P","o","r","t","f","o","l","i","o","-",
      "F","e","a","t","u","r","e","d","-">>

TopicsNone == <<>>
TopicsTagged ==
    << <<"w","e","b">>,
       <<"p","o","r","t","f","o","l","i","o","-","f","e","a","t","u","r","e","d",
         "-","2","0","2","4">> >>

\* (stars, updated_at in ms): an old repository with stars (score 15) and a
\* recent one without (score 10)
ScoreKinds == { [stars |-> 3, ms |-> 0], [stars |-> 0, ms |-> 10000] }

\* FEATURED as shipped (empty) and with the Demo repositories listed
FeaturedAllDemo == [i \in 1..(MaxRepos + 1) |-> <<"D","E","M","O">> \o <<Digits[i]>>]

FeaturedConfigs == { <<>>, FeaturedAllDemo }

GithubUrl ==
    <<"h","t","t","p","s",":","/","/","g","i","t","h","u","b",".","c","o","m","/">>

USER ==
    <<"P","o","o","j","i","t","h","a","Y","e","l","k","u","r">>

\* an optional string of the API: JSON null, or a string
Null == [isNull |-> TRUE, text |-> <<>>]
Str(s) == [isNull |-> FALSE, text |-> s]

\* JavaScript truthiness of an optional string: null and "" are falsy
truthy(v) == ~v.isNull /\ v.text # <<>>

Repo(i, nameKind, topics, sc, hp, lang) ==
    [ id               |-> i,
      name             |-> nameKind \o <<Digits[i]>>,
      stargazers_count |-> sc.stars,
      updated_at       |-> sc.ms,
      topics           |-> topics,
      homepage         |-> hp,
      language         |-> lang,
      html_url         |-> GithubUrl \o USER \o <<"/">> \o nameKind \o <<Digits[i]>> ]

\* a plain repository, one FEATURED may list, one tagged by its name, one
\* tagged by a topic, and one that FEATURED may list and a topic tags
RepoKinds ==
    { [name |-> NamePlain,  topics |-> TopicsNone],
      [name |-> NameManual, topics |-> TopicsNone],
      [name |-> NameTagged, topics |-> TopicsNone],
      [name |-> NamePlain,  topics |-> TopicsTagged],
      [name |-> NameManual, topics |-> TopicsTagged] }

SelectAttrs == [kind : RepoKinds, sc : ScoreKinds]

SelectLists ==
    { [i \in DOMAIN f |-> Repo(i, f[i].kind.name, f[i].kind.topics, f[i].sc, Null, Null)] :
        f \in UNION { [1..n -> SelectAttrs] : n \in 0..MaxRepos } }

\* a response of the GitHub API, or the rejection of fetch()
HttpResponse(status, body) == [kind |-> "http", status |-> status, body |-> body]
NetworkError == [kind |-> "network", status |-> 0, body |-> Null]

\* no response has arrived
NoResponse == [kind |-> "none", status |-> 0, body |-> Null]

\* the values of the variables a specification does not use
NoRequests == {}

pipeIdle ==
    /\ net = NoRequests
    /\ listRequests = 0
    /\ readmeRequests = 0
    /\ section = "none"
    /\ idx = 0
    /\ featuredGrid = <<>>
    /\ categories = <<>>
    /\ projects = <<>>
    /\ banners = <<>>
    /\ listResponse = NoResponse

listIdle == repos = <<>> /\ featured = <<>>

snippetIdle == response = NoResponse /\ snippet = <<>>

linkIdle == card = <<>> /\ opened = <<>>

\* repos.sort((a, b) => new Date(b.updated_at) - new Date(a.updated_at)) has run
sortedByRecency(rs) ==
    \A i \in 1..(Len(rs) - 1) : rs[i].updated_at >= rs[i + 1].updated_at

(***************************************************************************)
(* SpecSelect: pickFeatured applied to the lists renderFeatured hands it   *)
(***************************************************************************)
SelectInit ==
    /\ variant \in Variants
    /\ FEATURED \in FeaturedConfigs
    /\ repos \in SelectLists
    /\ sortedByRecency(repos)
    /\ featured = <<>>
    /\ pc = "select"
    /\ pipeIdle /\ snippetIdle /\ linkIdle

SelectPick ==
    /\ pc = "select"
    /\ featured' = pickFeaturedOf(variant, FEATURED, repos)
    /\ pc' = "selected"
    /\ UNCHANGED <<cfgVars, repos, pipeVars, snippetVars, linkVars>>

SelectNext == SelectPick

SpecSelect == SelectInit /\ [][SelectNext]_vars

(***************************************************************************)
(* Character codes, base64                                                 *)
(***************************************************************************)
DigitChars == <<"0","1","2","3","4","5","6","7","8","9">>

\* the character of code 96, which a string of this language cannot hold
Backtick == "backtick"

\* the characters of codes 32 to 126
AsciiPrintable ==
    <<" ","!","\"","#","$","%","&","'","(",")","*","+",",","-",".","/">>
    \o DigitChars \o <<":",";","<","=",">","?","@">>
    \o UpperChars \o <<"[","\\","]","^","_",Backtick>>
    \o LowerChars \o <<"{","|","}","~">>

\* a character of a code this model has no name for
OtherChar == "\\x"

\* String.fromCharCode, on the codes 0 to 255
fromCharCode(b) ==
    IF b >= 32 /\ b <= 126 THEN AsciiPrintable[b - 31]
    ELSE IF b = 9 THEN "\t"
    ELSE IF b = 10 THEN "\n"
    ELSE IF b = 13 THEN "\r"
    ELSE OtherChar

CharCodes ==
    [c \in {fromCharCode(b) : b \in (32..126) \cup {9, 10, 13}} |->
        CHOOSE b \in (32..126) \cup {9, 10, 13} : fromCharCode(b) = c]

\* String.prototype.charCodeAt
charCode(c) == CharCodes[c]

Base64Chars == UpperChars \o LowerChars \o DigitChars \o <<"+","/">>

\* the 6-bit value of every character of the base64 alphabet
Base64Index ==
    [c \in {Base64Chars[i] : i \in 1..Len(Base64Chars)} |-> IndexOf(Base64Chars, c) - 1]

\* ASCII whitespace, which atob removes before it decodes
AsciiWhitespace == {" ", "\t", "\n", "\r"}

removeAll(s, chars) == SelectSeq(s, LAMBDA c : c \notin chars)

\* data.content.replace(/\n/g, "")
stripNewlines(s) == removeAll(s, {"\n"})

\* the bytes of groups of 4, 3 or 2 base64 characters: byte k is made of the
\* bits of two neighbouring characters of its group
decodeGroups(s) ==
    [k \in 1..((Len(s) * 3) \div 4) |->
        LET g == ((k - 1) \div 3) * 4
            a == Base64Index[s[g + 1]]
            b == Base64Index[s[g + 2]]
            c == IF Len(s) >= g + 3 THEN Base64Index[s[g + 3]] ELSE 0
            d == IF Len(s) >= g + 4 THEN Base64Index[s[g + 4]] ELSE 0
        IN  fromCharCode(CASE (k - 1) % 3 = 0 -> a * 4 + (b \div 16)
                           [] (k - 1) % 3 = 1 -> (b % 16) * 16 + (c \div 4)
                           [] OTHER           -> (c % 4) * 64 + d)]

\* the padding atob removes: one or two "=" at the end of a multiple of 4
stripPadding(s) ==
    IF Len(s) % 4 = 0 /\ Len(s) > 0 /\ s[Len(s)] = "="
    THEN IF s[Len(s) - 1] = "=" THEN SubSeq(s, 1, Len(s) - 2)
         ELSE SubSeq(s, 1, Len(s) - 1)
    ELSE s

\* window.atob (forgiving-base64 decode): throws InvalidCharacterError on a
\* length of 4n+1 or a character outside the alphabet
atob(s) ==
    LET t == stripPadding(removeAll(s, AsciiWhitespace))
    IN  IF Len(t) % 4 = 1 \/ \E i \in 1..Len(t) : t[i] \notin DOMAIN Base64Index
        THEN [threw |-> TRUE, text |-> <<>>]
        ELSE [threw |-> FALSE, text |-> decodeGroups(t)]

(***************************************************************************)
(* README snippet                                                          *)
(***************************************************************************)
SnippetLimit == 200

Ellipsis == "U+2026"

\* the class [#_*`>~\-\[\]\(\)]
StructuralChars == {"#", "_", "*", Backtick, ">", "~", "-", "[", "]", "(", ")"}

\* the class \s, among the characters atob can yield that this model names
WhitespaceChars == {" ", "\t", "\n", "\r"}

\* decoded.replace(/[#_*`>~\-\[\]\(\)]/g, " ")
replaceStructural(s) ==
    [i \in 1..Len(s) |-> IF s[i] \in StructuralChars THEN " " ELSE s[i]]

\* .replace(/\s+/g, " "): of every run of whitespace only the first
\* character stays, as a space
collapseWhitespace(s) ==
    LET marked == [i \in 1..Len(s) |->
                     [c    |-> IF s[i] \in WhitespaceChars THEN " " ELSE s[i],
                      drop |-> /\ i > 1
                               /\ s[i] \in WhitespaceChars
                               /\ s[i - 1] \in WhitespaceChars]]
        kept == SelectSeq(marked, LAMBDA m : ~m.drop)
    IN  [i \in 1..Len(kept) |-> kept[i].c]

\* String.prototype.trim
trim(s) ==
    IF \A i \in 1..Len(s) : s[i] \in WhitespaceChars THEN <<>>
    ELSE LET first == CHOOSE i \in 1..Len(s) :
                          /\ s[i] \notin WhitespaceChars
                          /\ \A j \in 1..(i - 1) : s[j] \in WhitespaceChars
             last == CHOOSE i \in 1..Len(s) :
                          /\ s[i] \notin WhitespaceChars
                          /\ \A j \in (i + 1)..Len(s) : s[j] \in WhitespaceChars
         IN  SubSeq(s, first, last)

cleanText(decoded) == trim(collapseWhitespace(replaceStructural(decoded)))

\* truncate with >= for >: the ellipsis is appended from 200 characters on
truncateFrom200(cleaned) ==
    slice0(cleaned, SnippetLimit)
    \o (IF Len(cleaned) >= SnippetLimit THEN <<Ellipsis>> ELSE <<>>)

\* app.js: cleaned.slice(0, 200) + (cleaned.length > 200 ? "..." : "")
truncate(cleaned) ==
    slice0(cleaned, SnippetLimit)
    \o (IF Len(cleaned) > SnippetLimit THEN <<Ellipsis>> ELSE <<>>)

\* part_000: cleaned.length > 200 ? cleaned.slice(0, 200) + "..." : cleaned
truncatePatched(cleaned) ==
    IF Len(cleaned) > SnippetLimit
    THEN slice0(cleaned, SnippetLimit) \o <<Ellipsis>>
    ELSE cleaned

(***************************************************************************)
(* fetch                                                                   *)
(***************************************************************************)
\* res.ok is true whatever the status
responseOkAny(res) == res.status >= 0

\* res.ok
responseOk(res) == res.status >= 200 /\ res.status <= 299

\* fetchJSON with the status 403 handled as any other failure
fetchJSONNoRateLimit(res) ==
    IF res.kind = "network"
    THEN [threw |-> TRUE, message |-> "Failed to fetch", value |-> Null]
    ELSE IF ~responseOk(res)
    THEN [threw |-> TRUE, message |-> "GitHub API error", value |-> Null]
    ELSE [threw |-> FALSE, message |-> "", value |-> res.body]

\* fetchJSON once fetch() has settled: what it throws, or the JSON it returns
fetchJSON(res) ==
    IF res.kind = "network"
    THEN [threw |-> TRUE, message |-> "Failed to fetch", value |-> Null]
    ELSE IF res.status = 403
    THEN [threw |-> TRUE, message |-> "rate_limited", value |-> Null]
    ELSE IF ~responseOk(res)
    THEN [threw |-> TRUE, message |-> "GitHub API error", value |-> Null]
    ELSE [threw |-> FALSE, message |-> "", value |-> res.body]

\* what an async function hands to the code that awaits it
Returned(text) == [threw |-> FALSE, message |-> "", text |-> text]
Thrown(message) == [threw |-> TRUE, message |-> message, text |-> <<>>]

\* fetchReadmeSnippet without its try / catch
fetchReadmeSnippetUncaught(res) ==
    LET r == fetchJSON(res)
    IN  IF r.threw THEN Thrown(r.message)
        ELSE IF truthy(r.value)
        THEN LET decoded == atob(stripNewlines(r.value.text))
             IN  IF decoded.threw THEN Thrown("InvalidCharacterError")
                 ELSE Returned(truncate(cleanText(decoded.text)))
        ELSE Returned(<<>>)

\* fetchReadmeSnippet of app.js once its fetch() has settled.  data.content
\* is an optional string; what fetchJSON and atob throw lands in the catch
\* block.
fetchReadmeSnippet(res) ==
    LET r == fetchJSON(res)
    IN  IF r.threw THEN Returned(<<>>)
        ELSE IF truthy(r.value)
        THEN LET decoded == atob(stripNewlines(r.value.text))
             IN  IF decoded.threw THEN Returned(<<>>)
                 ELSE Returned(truncate(cleanText(decoded.text)))
        ELSE Returned(<<>>)

\* fetchReadmeSnippet of part_000
fetchReadmeSnippetPatched(res) ==
    LET r == fetchJSON(res)
    IN  IF r.threw THEN Returned(<<>>)
        ELSE IF truthy(r.value)
        THEN LET decoded == atob(stripNewlines(r.value.text))
             IN  IF decoded.threw THEN Returned(<<>>)
                 ELSE Returned(truncatePatched(cleanText(decoded.text)))
        ELSE Returned(<<>>)

fetchReadmeSnippetOf(v, res) ==
    IF v = "app" THEN fetchReadmeSnippet(res) ELSE fetchReadmeSnippetPatched(res)

(***************************************************************************)
(* README responses.  The API sends the file base64-encoded, in lines of   *)
(* 60 characters.                                                          *)
(***************************************************************************)
Base64LineLength == 60

\* base64 of the text t, padded with "="
encodeGroups(t) ==
    [j \in 1..(((Len(t) + 2) \div 3) * 4) |->
        LET g  == ((j - 1) \div 4) * 3
            b1 == charCode(t[g + 1])
            b2 == IF Len(t) >= g + 2 THEN charCode(t[g + 2]) ELSE 0
            b3 == IF Len(t) >= g + 3 THEN charCode(t[g + 3]) ELSE 0
        IN  CASE (j - 1) % 4 = 0 -> Base64Chars[(b1 \div 4) + 1]
              [] (j - 1) % 4 = 1 -> Base64Chars[(b1 % 4) * 16 + (b2 \div 16) + 1]
              [] (j - 1) % 4 = 2 ->
                    IF Len(t) >= g + 2
                    THEN Base64Chars[(b2 % 16) * 4 + (b3 \div 64) + 1] ELSE "="
              [] OTHER ->
                    IF Len(t) >= g + 3 THEN Base64Chars[(b3 % 64) + 1] ELSE "="]

\* a line feed after every 60 characters and at the end
wrapLines(s) ==
    LET lines == (Len(s) + Base64LineLength - 1) \div Base64LineLength
    IN  [p \in 1..(Len(s) + lines) |->
            IF p % (Base64LineLength + 1) = 0 \/ p = Len(s) + lines THEN "\n"
            ELSE s[p - ((p - 1) \div (Base64LineLength + 1))]]

\* the content field of the README of text t
readmeContent(t) == wrapLines(encodeGroups(t))

MaxSlack == 3

RunLengths ==
    (0..MaxSlack) \cup ((SnippetLimit - MaxSlack)..(SnippetLimit + MaxSlack))

Run(n) == [i \in 1..n |-> "a"]

ReadmeHeads ==
    { <<>>, <<"#", " ">>, <<" ", "\n", "\t">>, <<"*", "*", "T", "o", "*", "*", " ">> }

ReadmeTails ==
    { <<>>, <<"\n">>, <<" ", "-", "-", " ", "z">>,
      <<"[", "x", "]", "(", "u", ".", "i", "o", ")">> }

ReadmeTexts ==
    { h \o Run(n) \o t : h \in ReadmeHeads, n \in RunLengths, t \in ReadmeTails }

\* 200 responses with a README, and without a usable content field
SnippetResponses ==
    { HttpResponse(200, Str(readmeContent(t))) : t \in ReadmeTexts }
    \cup { HttpResponse(200, Null), HttpResponse(200, Str(<<>>)),
           HttpResponse(200, Str(<<"!", "!", "!", "!">>)),
           HttpResponse(200, Str(<<"Y", "W", "J", "j", "Z">>)) }

(***************************************************************************)
(* SpecSnippet: fetchReadmeSnippet applied to README responses             *)
(***************************************************************************)
SnippetInit ==
    /\ variant \in Variants
    /\ FEATURED = <<>>
    /\ response \in SnippetResponses
    /\ snippet = <<>>
    /\ pc = "snippet"
    /\ listIdle /\ pipeIdle /\ linkIdle

SnippetFetch ==
    /\ pc = "snippet"
    /\ snippet' = fetchReadmeSnippetOf(variant, response).text
    /\ pc' = IF fetchReadmeSnippetOf(variant, response).threw THEN "threw" ELSE "snipped"
    /\ UNCHANGED <<cfgVars, listVars, pipeVars, response, linkVars>>

SnippetNext == SnippetFetch

SpecSnippet == SnippetInit /\ [][SnippetNext]_vars

(***************************************************************************)
(* URLs.  new URL(string), without a base, on strings without credentials, *)
(* port, query or fragment.                                                *)
(***************************************************************************)
\* the schemes the URL standard calls special, but file
SpecialSchemes ==
    { <<"h","t","t","p">>, <<"h","t","t","p","s">>, <<"f","t","p">>,
      <<"w","s">>, <<"w","s","s">> }

SchemeChars ==
    {UpperChars[i] : i \in 1..Len(UpperChars)}
    \cup {LowerChars[i] : i \in 1..Len(LowerChars)}
    \cup {DigitChars[i] : i \in 1..Len(DigitChars)} \cup {"+", "-", "."}

AlphaChars ==
    {UpperChars[i] : i \in 1..Len(UpperChars)}
    \cup {LowerChars[i] : i \in 1..Len(LowerChars)}

\* code points a host may not contain
ForbiddenHostChars ==
    {" ", "#", "/", ":", "<", ">", "?", "@", "[", "\\", "]", "^", "|", "%"}

\* index of the first element of s that is in chars, Len(s) + 1 if none
firstOf(s, chars) ==
    IF \E i \in 1..Len(s) : s[i] \in chars
    THEN CHOOSE i \in 1..Len(s) :
            s[i] \in chars /\ \A j \in 1..(i - 1) : s[j] \notin chars
    ELSE Len(s) + 1

\* index of the first element of s that is not in chars, Len(s) + 1 if none
firstNotOf(s, chars) ==
    IF \E i \in 1..Len(s) : s[i] \notin chars
    THEN CHOOSE i \in 1..Len(s) :
            s[i] \notin chars /\ \A j \in 1..(i - 1) : s[j] \in chars
    ELSE Len(s) + 1

\* the URL parser: leading and trailing spaces and all tabs and newlines are
\* dropped; the scheme is a letter followed by letters, digits, + - . up to
\* the first colon, lowercased; a special scheme wants a host, which starts
\* after any slashes and ends at the next slash
parseUrl(string) ==
    LET input  == removeAll(trim(string), {"\t", "\n", "\r"})
        colon  == firstOf(input, {":"})
        scheme == toLowerCase(SubSeq(input, 1, colon - 1))
        rest   == SubSeq(input, colon + 1, Len(input))
        start  == firstNotOf(rest, {"/", "\\"})
        after  == SubSeq(rest, start, Len(rest))
        host   == SubSeq(after, 1, firstOf(after, {"/", "\\"}) - 1)
    IN  IF \/ colon > Len(input)
           \/ colon = 1
           \/ input[1] \notin AlphaChars
           \/ \E i \in 1..(colon - 1) : input[i] \notin SchemeChars
        THEN [failure |-> TRUE, protocol |-> <<>>]
        ELSE IF /\ scheme \in SpecialSchemes
                /\ \/ host = <<>>
                   \/ \E i \in 1..Len(host) : host[i] \in ForbiddenHostChars
        THEN [failure |-> TRUE, protocol |-> <<>>]
        ELSE [failure |-> FALSE, protocol |-> scheme \o <<":">>]

\* app.js isValidHttpUrl and part_000 isValidUrl: the same code
isValidHttpUrl(string) ==
    LET u == parseUrl(string)
    IN  IF u.failure THEN FALSE
        ELSE u.protocol = <<"h","t","t","p",":">>
             \/ u.protocol = <<"h","t","t","p","s",":">>

isValidUrl(str) ==
    LET u == parseUrl(str)
    IN  IF u.failure THEN FALSE
        ELSE u.protocol = <<"h","t","t","p",":">>
             \/ u.protocol = <<"h","t","t","p","s",":">>

HexDigits == DigitChars \o <<"A","B","C","D","E","F">>

\* the characters encodeURIComponent leaves as they are
UnreservedChars ==
    (SchemeChars \ {"+"}) \cup {"_", "!", "~", "*", "'", "(", ")"}

\* encodeURIComponent, on ASCII
RECURSIVE encodeURIComponent(_)
encodeURIComponent(s) ==
    IF s = <<>> THEN <<>>
    ELSE (IF Head(s) \in UnreservedChars THEN <<Head(s)>>
          ELSE <<"%", HexDigits[(charCode(Head(s)) \div 16) + 1],
                      HexDigits[(charCode(Head(s)) % 16) + 1]>>)
         \o encodeURIComponent(Tail(s))

\* part_000: `https://${USER}.github.io/${encoded}/`
githubPagesFallback(repoName) ==
    <<"h","t","t","p","s",":","/","/">> \o USER
    \o <<".","g","i","t","h","u","b",".","i","o","/">>
    \o encodeURIComponent(repoName) \o <<"/">>

\* window.open throws when its URL does not parse; a string without a scheme
\* is resolved against the address of the page
windowOpenThrows(url) ==
    /\ firstOf(url, {":"}) <= Len(url)
    /\ firstOf(url, {":"}) < firstOf(url, {"/", "?", "#"})
    /\ parseUrl(url).failure

(***************************************************************************)
(* Cards                                                                   *)
(***************************************************************************)
LiveDemoLabel == "Live Demo"
OpenLabel == "Open"
LiveOutputLabel == "Live / Output"

\* app.js createProjectCard: what of the card depends on the repository
createProjectCard(repo, readmeSnippet) ==
    [ repo      |-> repo,
      snippet   |-> readmeSnippet,
      demoBadge |-> truthy(repo.homepage) /\ isValidHttpUrl(repo.homepage.text),
      liveLabel |-> IF truthy(repo.homepage) /\ isValidHttpUrl(repo.homepage.text)
                    THEN LiveDemoLabel ELSE OpenLabel ]

\* part_000 createProjectCard
createProjectCardPatched(repo, readmeSnippet) ==
    LET hasHomepage == truthy(repo.homepage) /\ isValidUrl(repo.homepage.text)
    IN  [ repo        |-> repo,
          snippet     |-> readmeSnippet,
          hasHomepage |-> hasHomepage,
          liveTarget  |-> IF hasHomepage THEN repo.homepage.text
                          ELSE githubPagesFallback(repo.name),
          liveLabel   |-> LiveOutputLabel ]

createProjectCardOf(v, repo, readmeSnippet) ==
    IF v = "app" THEN createProjectCard(repo, readmeSnippet)
    ELSE createProjectCardPatched(repo, readmeSnippet)

\* app.js, the click listener of liveBtn: the URL it opens
liveBtnClick(c) ==
    IF truthy(c.repo.homepage) /\ isValidHttpUrl(c.repo.homepage.text)
    THEN c.repo.homepage.text
    ELSE c.repo.html_url

\* part_000, the click listener of liveBtn
liveBtnClickPatched(c) ==
    IF windowOpenThrows(c.liveTarget) THEN c.repo.html_url ELSE c.liveTarget

liveBtnClickOf(v, c) ==
    IF v = "app" THEN liveBtnClick(c) ELSE liveBtnClickPatched(c)

\* app.js: the click listener of codeBtn; part_000: the href of codeBtn
codeBtnClick(c) == c.repo.html_url

(***************************************************************************)
(* SpecLink: a card is made for a repository and the user operates it      *)
(***************************************************************************)
MaxOpens == 2

Keys == {"Enter", " ", "Tab"}

HomepageValid == <<"h","t","t","p","s",":","/","/","d","e","m","o",".","i","o">>
HomepageUpper == <<"H","T","T","P",":","/","/","d","e","m","o",".","i","o","/","a","p","p">>
HomepagePadded == <<" ","h","t","t","p",":","/","/","d","e","m","o",".","i","o","\n">>
HomepageFtp == <<"f","t","p",":","/","/","b","a","d",".","e","x","a","m","p","l","e">>
HomepageNoScheme == <<"d","e","m","o",".","i","o">>
HomepageNoHost == <<"h","t","t","p",":","/","/">>
HomepageSpace == <<"h","t","t","p","s",":","/","/","m","y"," ","d","e","m","o">>
HomepageMail == <<"m","a","i","l","t","o",":","m","e">>

\* the homepage field: absent, empty, valid, and malformed in several ways
Homepages ==
    { Null, Str(<<>>), Str(HomepageValid), Str(HomepageUpper), Str(HomepagePadded),
      Str(HomepageFtp), Str(HomepageNoScheme), Str(HomepageNoHost),
      Str(HomepageSpace), Str(HomepageMail) }

LinkRepos ==
    { Repo(1, n, TopicsNone, [stars |-> 0, ms |-> 0], hp, Null) :
        n \in {NamePlain, NameTagged}, hp \in Homepages }

LinkInit ==
    /\ variant \in Variants
    /\ FEATURED = <<>>
    /\ repos \in { <<r>> : r \in LinkRepos }
    /\ featured = <<>>
    /\ card = <<>>
    /\ opened = <<>>
    /\ pc = "card"
    /\ pipeIdle /\ snippetIdle

\* createProjectCard(repo, snippet)
CreateCard ==
    /\ pc = "card"
    /\ card' = <<createProjectCardOf(variant, repos[1], snippet)>>
    /\ pc' = "shown"
    /\ UNCHANGED <<cfgVars, listVars, pipeVars, snippetVars, opened>>

\* the user clicks the live button
ClickLive ==
    /\ pc = "shown"
    /\ Len(opened) < MaxOpens
    /\ opened' = Append(opened, [by |-> "live", url |-> liveBtnClickOf(variant, card[1])])
    /\ UNCHANGED <<cfgVars, pc, listVars, pipeVars, snippetVars, card>>

\* the user presses a key while the card has the focus
KeyDown ==
    /\ pc = "shown"
    /\ Len(opened) < MaxOpens
    /\ \E key \in Keys :
          opened' = IF key = "Enter" \/ key = " "
                    THEN Append(opened, [by |-> "key",
                                         url |-> liveBtnClickOf(variant, card[1])])
                    ELSE opened
    /\ UNCHANGED <<cfgVars, pc, listVars, pipeVars, snippetVars, card>>

\* the user clicks the code button
ClickCode ==
    /\ pc = "shown"
    /\ Len(opened) < MaxOpens
    /\ opened' = Append(opened, [by |-> "code", url |-> codeBtnClick(card[1])])
    /\ UNCHANGED <<cfgVars, pc, listVars, pipeVars, snippetVars, card>>

LinkNext == CreateCard \/ ClickLive \/ KeyDown \/ ClickCode

SpecLink == LinkInit /\ [][LinkNext]_vars

(***************************************************************************)
(* init(): the list request, the render loops and their README requests    *)
(***************************************************************************)
\* the JSON of the repository-list endpoint: the array of repositories, or
\* the object that comes with an error status
ArrayBody(items) == [isArray |-> TRUE, items |-> items]
ErrorBody == [isArray |-> FALSE, items |-> <<>>]

ListRequest == [endpoint |-> "list", name |-> <<>>]
ReadmeRequest(repo) == [endpoint |-> "readme", name |-> repo.name]

\* a loop that sends the requests of all its remaining repositories at once
loopRequestsFanOut(list, i) == {ReadmeRequest(list[j]) : j \in i..Len(list)}

\* for (const r of list) { const snip = await fetchReadmeSnippet(r); ... }:
\* the requests pending when the loop reaches its i-th repository
loopRequests(list, i) == {ReadmeRequest(list[i])}

\* repos.sort((a, b) => new Date(b.updated_at) - new Date(a.updated_at))
RECURSIVE insertByRecency(_, _)
insertByRecency(sorted, x) ==
    IF sorted = <<>> THEN <<x>>
    ELSE IF minus(x.updated_at, Head(sorted).updated_at) > 0
         THEN <<x>> \o sorted
         ELSE <<Head(sorted)>> \o insertByRecency(Tail(sorted), x)

RECURSIVE sortByRecency(_)
sortByRecency(arr) ==
    IF arr = <<>> THEN <<>>
    ELSE insertByRecency(sortByRecency(SubSeq(arr, 1, Len(arr) - 1)), arr[Len(arr)])

OtherLanguage == <<"O","t","h","e","r">>

\* r.language || "Other"
languageKey(r) == IF truthy(r.language) THEN r.language.text ELSE OtherLanguage

\* app.js groupByLanguage: the repositories of every language, in list order
groupByLanguage(rs) ==
    [k \in {languageKey(rs[i]) : i \in 1..Len(rs)} |->
        SelectSeq(rs, LAMBDA r : languageKey(r) = k)]

\* the order Array.prototype.sort gives strings: by code units
stringLess(a, b) ==
    \E i \in 1..Len(b) :
        /\ i - 1 <= Len(a)
        /\ \A j \in 1..(i - 1) : a[j] = b[j]
        /\ (i = Len(a) + 1 \/ charCode(a[i]) < charCode(b[i]))

\* Object.keys(groups).sort()
RECURSIVE sortStrings(_)
sortStrings(keys) ==
    IF keys = {} THEN <<>>
    ELSE LET first == CHOOSE k \in keys : \A other \in keys \ {k} : stringLess(k, other)
         IN  <<first>> \o sortStrings(keys \ {first})

CategoryLimit == 6

\* app.js renderCategories: a heading and at most 6 cards for every language
renderCategories(rs) ==
    LET groups == groupByLanguage(rs)
        langs  == sortStrings(DOMAIN groups)
    IN  [i \in 1..Len(langs) |->
            [ lang  |-> langs[i],
              count |-> Len(groups[langs[i]]),
              cards |-> [j \in 1..Len(slice0(groups[langs[i]], CategoryLimit)) |->
                            createProjectCard(groups[langs[i]][j], <<>>)] ]]

RateLimitBanner == "GitHub API rate limit reached."
GenericBanner == "Failed to load GitHub repos."
GenericBannerPatched == "Unable to load GitHub projects."

\* the banner the catch block of init() prepends for an error
bannerFor(v, message) ==
    IF message = "rate_limited" THEN RateLimitBanner
    ELSE IF v = "app" THEN GenericBanner ELSE GenericBannerPatched

\* what the repository-list endpoint and the README endpoint may answer
MaxListed == 2

ListedAttrs ==
    { [name |-> NamePlain,  sc |-> [stars |-> 0, ms |-> 10000], lang |-> Null],
      [name |-> NameTagged, sc |-> [stars |-> 0, ms |-> 10000], lang |-> Str(<<"C">>)],
      [name |-> NameManual, sc |-> [stars |-> 3, ms |-> 0],     lang |-> Str(<<"G","o">>)] }

ApiLists ==
    { [i \in DOMAIN f |-> Repo(i, f[i].name, TopicsNone, f[i].sc, Null, f[i].lang)] :
        f \in UNION { [1..n -> ListedAttrs] : n \in 0..MaxListed } }

ListResponses ==
    { HttpResponse(200, ArrayBody(l)) : l \in ApiLists }
    \cup { HttpResponse(403, ErrorBody), HttpResponse(404, ErrorBody),
           HttpResponse(500, ErrorBody), NetworkError }

ShortReadme == <<"#"," ","H","i","\n","\n","A"," ","*","d","e","m","o","*",".","\n">>

ReadmeResponses ==
    { HttpResponse(200, Str(readmeContent(ShortReadme))), HttpResponse(200, Null),
      HttpResponse(404, Null), HttpResponse(403, Null), HttpResponse(500, Null),
      NetworkError }

\* the script is loaded, the elements of index.html exist, DOMContentLoaded
\* has not fired
Init ==
    /\ variant \in Variants
    /\ FEATURED \in FeaturedConfigs
    /\ pc = "idle"
    /\ listIdle /\ pipeIdle /\ snippetIdle /\ linkIdle

\* init() up to its first await: fetchJSON sends the list request
DOMContentLoaded ==
    /\ pc = "idle"
    /\ net' = {ListRequest}
    /\ listRequests' = listRequests + 1
    /\ pc' = "awaitList"
    /\ UNCHANGED <<cfgVars, listVars, readmeRequests, section, idx, featuredGrid,
                   categories, projects, banners, listResponse, snippetVars, linkVars>>

\* init() from the answer to the list request to the next await or to its
\* end.  app.js: an error (what fetchJSON throws, or the TypeError of
\* repos.sort on a body that is no array) goes to the catch block, which
\* shows a banner and ends init.  part_000: the catch block shows the banner
\* and init goes on with an empty list; a body that is no array is an empty
\* list.  Then renderFeatured runs up to its first README request; with no
\* repository both render loops end at once.
ListResponse ==
    /\ pc = "awaitList"
    /\ \E res \in ListResponses :
        LET r        == fetchJSON(res)
            isArray  == ~r.threw /\ r.value.isArray
            caught   == r.threw \/ (variant = "app" /\ ~isArray)
            aborted  == variant = "app" /\ caught
            list     == IF isArray THEN sortByRecency(r.value.items) ELSE <<>>
            picked   == pickFeaturedOf(variant, FEATURED, list)
        IN  /\ listResponse' = res
            /\ banners' = IF r.threw THEN <<bannerFor(variant, r.message)>> \o banners
                          ELSE IF caught THEN <<bannerFor(variant, "TypeError")>> \o banners
                          ELSE banners
            /\ repos' = IF aborted THEN repos ELSE list
            /\ featured' = IF aborted THEN featured ELSE picked
            /\ featuredGrid' = IF aborted THEN featuredGrid ELSE <<>>
            /\ categories' = IF ~aborted /\ picked = <<>> /\ variant = "app"
                             THEN renderCategories(list) ELSE categories
            /\ projects' = IF ~aborted /\ picked = <<>> THEN <<>> ELSE projects
            /\ IF aborted \/ picked = <<>>
               THEN /\ net' = NoRequests
                    /\ pc' = "done"
                    /\ UNCHANGED <<readmeRequests, section, idx>>
               ELSE /\ net' = loopRequests(picked, 1)
                    /\ readmeRequests' = readmeRequests + 1
                    /\ section' = "featured"
                    /\ idx' = 1
                    /\ pc' = "awaitReadme"
    /\ UNCHANGED <<cfgVars, listRequests, snippetVars, linkVars>>

\* renderFeatured / renderAll from the answer to a README request to the
\* next await or to the end of init(): fetchReadmeSnippet returns, the card
\* is appended, the loop goes to its next repository; after the last
\* featured card app.js runs renderCategories and both scripts start the
\* loop over all repositories.  An error thrown to the loop would leave it
\* for the try of init(): app.js shows a banner, part_000 logs it.
ReadmeResponse ==
    /\ pc = "awaitReadme"
    /\ \E res \in ReadmeResponses :
        LET result     == fetchReadmeSnippetOf(variant, res)
            inFeatured == section = "featured"
            list       == IF inFeatured THEN featured ELSE repos
            newCard    == createProjectCardOf(variant, list[idx], result.text)
            more       == idx < Len(list)
            toAll      == ~result.threw /\ inFeatured /\ ~more
            finished   == result.threw \/ (~inFeatured /\ ~more)
        IN  /\ response' = res
            /\ snippet' = result.text
            /\ featuredGrid' = IF ~result.threw /\ inFeatured
                               THEN Append(featuredGrid, newCard) ELSE featuredGrid
            /\ categories' = IF toAll /\ variant = "app"
                             THEN renderCategories(repos) ELSE categories
            /\ projects' = IF toAll THEN <<>>
                           ELSE IF ~result.threw /\ ~inFeatured
                           THEN Append(projects, newCard) ELSE projects
            /\ banners' = IF result.threw /\ variant = "app"
                          THEN <<bannerFor(variant, result.message)>> \o banners
                          ELSE banners
            /\ IF finished
               THEN /\ net' = NoRequests
                    /\ section' = "none"
                    /\ idx' = 0
                    /\ pc' = "done"
                    /\ UNCHANGED readmeRequests
               ELSE /\ net' = IF toAll THEN loopRequests(repos, 1)
                                 ELSE loopRequests(list, idx + 1)
                    /\ readmeRequests' = readmeRequests + 1
                    /\ section' = IF toAll THEN "all" ELSE section
                    /\ idx' = IF toAll THEN 1 ELSE idx + 1
                    /\ pc' = "awaitReadme"
    /\ UNCHANGED <<cfgVars, listVars, listRequests, listResponse, linkVars>>

Next == DOMContentLoaded \/ ListResponse \/ ReadmeResponse

Spec == Init /\ [][Next]_vars

(***************************************************************************)
(* Sorting with dates that do not parse.  A comparator that returns NaN    *)
(* puts the two elements level.  While that leaves the comparator          *)
(* consistent the stable sort has one result; once it makes two elements   *)
(* level with a third that are not level with each other, the order        *)
(* Array.prototype.sort produces is implementation-defined: any            *)
(* permutation.                                                            *)
(***************************************************************************)
\* the comparator b - a is consistent on these keys: none is NaN, or those
\* that are not NaN are all equal
consistentKeys(keys) ==
    \/ \A i \in 1..Len(keys) : keys[i] # NaN
    \/ \A i, j \in 1..Len(keys) :
          (keys[i] # NaN /\ keys[j] # NaN) => keys[i] = keys[j]

permutationsOf(arr) ==
    { [i \in 1..Len(arr) |-> arr[p[i]]] : p \in Permutations(1..Len(arr)) }

\* what repos.sort((a, b) => new Date(b.updated_at) - new Date(a.updated_at))
\* may leave in repos
recencySortOutcomes(arr) ==
    IF consistentKeys([i \in 1..Len(arr) |-> arr[i].updated_at])
    THEN {sortByRecency(arr)}
    ELSE permutationsOf(arr)

\* what [...repos].sort((a, b) => bScore - aScore) of app.js may return
scoreSortOutcomes(arr) ==
    IF consistentKeys([i \in 1..Len(arr) |-> score(arr[i])])
    THEN {sortByScore(arr)}
    ELSE permutationsOf(arr)

\* what [...repos].sort((a, b) => bScore - aScore) of part_000 may return
scoreSortOutcomesPatched(arr) ==
    IF consistentKeys([i \in 1..Len(arr) |-> scorePatched(arr[i])])
    THEN {sortByScorePatched(arr)}
    ELSE permutationsOf(arr)

\* what pickFeatured of app.js may return
pickFeaturedOutcomes(manualNames, rs) ==
    LET acc == topicStage(filterManual(lowerAll(manualNames), rs), rs)
    IN  IF Len(acc) < FeaturedLimit
        THEN { slice0(pushUntilFull(acc, sorted), FeaturedLimit) :
                 sorted \in scoreSortOutcomes(rs) }
        ELSE { slice0(acc, FeaturedLimit) }

\* what pickFeatured of part_000 may return
pickFeaturedOutcomesPatched(manualNames, rs) ==
    LET acc == filterManual(lowerAll(manualNames), rs)
    IN  IF Len(acc) < FeaturedLimit
        THEN { slice0(pushUntilFull(acc, sorted), FeaturedLimit) :
                 sorted \in scoreSortOutcomesPatched(rs) }
        ELSE { slice0(acc, FeaturedLimit) }

pickFeaturedOutcomesOf(v, manualNames, rs) ==
    IF v = "app" THEN pickFeaturedOutcomes(manualNames, rs)
    ELSE pickFeaturedOutcomesPatched(manualNames, rs)

(***************************************************************************)
(* SpecDates: the sort of init() and pickFeatured on lists in which        *)
(* updated_at may be no date                                               *)
(***************************************************************************)
MaxDated == 3

DatedAttrs == [stars : {0, 3}, ms : {NaN, 0, 10000}]

DatedLists ==
    { [i \in DOMAIN f |-> Repo(i, NamePlain, TopicsNone, f[i], Null, Null)] :
        f \in UNION { [1..n -> DatedAttrs] : n \in 0..MaxDated } }

\* init() holds the list as the API sent it
DatesInit ==
    /\ variant \in Variants
    /\ FEATURED = <<>>
    /\ repos \in DatedLists
    /\ featured = <<>>
    /\ pc = "dates"
    /\ pipeIdle /\ snippetIdle /\ linkIdle

\* repos.sort(...) of init()
DatesSort ==
    /\ pc = "dates"
    /\ \E sorted \in recencySortOutcomes(repos) : repos' = sorted
    /\ pc' = "sorted"
    /\ UNCHANGED <<cfgVars, featured, pipeVars, snippetVars, linkVars>>

\* const featured = pickFeatured(repos) of renderFeatured
DatesPick ==
    /\ pc = "sorted"
    /\ \E picked \in pickFeaturedOutcomesOf(variant, FEATURED, repos) :
          featured' = picked
    /\ pc' = "picked"
    /\ UNCHANGED <<cfgVars, repos, pipeVars, snippetVars, linkVars>>

DatesNext == DatesSort \/ DatesPick

SpecDates == DatesInit /\ [][DatesNext]_vars

(***************************************************************************)
(* Claims about pickFeatured, checked under SpecSelect                     *)
(***************************************************************************)
Min(a, b) == IF a < b THEN a ELSE b

\* two strings are equal up to the case of their letters
EqualsIgnoreCase(a, b) ==
    /\ Len(a) = Len(b)
    /\ \A i \in 1..Len(a) :
          \/ a[i] = b[i]
          \/ \E k \in 1..Len(UpperChars) :
                {a[i], b[i]} = {UpperChars[k], LowerChars[k]}

\* s contains sub, up to the case of the letters
ContainsIgnoreCase(s, sub) ==
    \E i \in 0..(Len(s) - Len(sub)) :
        EqualsIgnoreCase(SubSeq(s, i + 1, i + Len(sub)), sub)

\* the repository is listed in FEATURED
IsManual(r) == \E i \in 1..Len(FEATURED) : EqualsIgnoreCase(FEATURED[i], r.name)

\* the repository carries the portfolio-featured tag, in its name or a topic
IsTagged(r) ==
    \/ ContainsIgnoreCase(r.name, FeaturedTag)
    \/ \E i \in 1..Len(r.topics) : ContainsIgnoreCase(r.topics[i], FeaturedTag)

IsTaggedOnly(r) == IsTagged(r) /\ ~IsManual(r)

\* stargazersCount * 5 + updatedAt in epoch seconds
ClaimScore(r) == r.stargazers_count * 5 + (r.updated_at \div 1000)

\* position of a repository in the input list
Pos(r) == CHOOSE i \in 1..Len(repos) : repos[i].id = r.id

InResult(r) == \E i \in 1..Len(featured) : featured[i].id = r.id

\* a ranks before b: higher score, or the same score and earlier in the input
RanksBefore(a, b) ==
    \/ ClaimScore(a) > ClaimScore(b)
    \/ (ClaimScore(a) = ClaimScore(b) /\ Pos(a) < Pos(b))

\* C1: the result of pickFeatured has exactly min(3, number of repositories)
\* entries, every entry is a repository of the input list, and no two
\* entries have the same id.
Thm_C1 ==
    pc = "selected" =>
        /\ Len(featured) = Min(FeaturedLimit, Len(repos))
        /\ \A i \in 1..Len(featured) : \E j \in 1..Len(repos) : featured[i] = repos[j]
        /\ \A i, j \in 1..Len(featured) : i # j => featured[i].id # featured[j].id

\* a list of fewer than 3 repositories, one of them both listed in FEATURED
\* and tagged, has been selected from by app.js
Witness_C1 ==
    /\ pc = "selected" /\ variant = "app"
    /\ Len(repos) = 2 /\ Len(featured) = 2
    /\ \E i \in 1..Len(repos) : IsManual(repos[i]) /\ IsTagged(repos[i])

\* C2: the repositories FEATURED lists (case-insensitively) come first in the
\* result, in their input order, whatever their stars and update times; the
\* entries after them are not listed in FEATURED.
Thm_C2 ==
    pc = "selected" =>
        LET m == SelectSeq(repos, IsManual)
            k == Min(FeaturedLimit, Len(m))
        IN  /\ SubSeq(featured, 1, k) = SubSeq(m, 1, k)
            /\ \A i \in (k + 1)..Len(featured) : ~IsManual(featured[i])

\* two listed repositories lead the result in their input order although the
\* second has the higher score, and an unlisted repository follows them
Witness_C2 ==
    /\ pc = "selected"
    /\ Len(featured) = FeaturedLimit
    /\ IsManual(featured[1]) /\ IsManual(featured[2]) /\ ~IsManual(featured[3])
    /\ Pos(featured[1]) < Pos(featured[2])
    /\ ClaimScore(featured[1]) < ClaimScore(featured[2])
    /\ \E i \in 1..Len(repos) :
          ~InResult(repos[i]) /\ ClaimScore(repos[i]) > ClaimScore(featured[1])

\* C3: the result is the first 3 of: the repositories FEATURED lists, then
\* the remaining tagged repositories in input order, then repositories
\* chosen by score; so no tagged repository is left out in favour of one
\* chosen by score only.
CE_C3 ==
    pc = "selected" =>
        LET pre == SelectSeq(repos, IsManual) \o SelectSeq(repos, IsTaggedOnly)
            k   == Min(FeaturedLimit, Len(pre))
        IN  /\ SubSeq(featured, 1, k) = SubSeq(pre, 1, k)
            /\ \A i \in (k + 1)..Len(featured) :
                  ~IsManual(featured[i]) /\ ~IsTagged(featured[i])

\* C4: with at least 3 repositories, none listed in FEATURED and none
\* tagged, the result is the 3 repositories of highest score
\* stars * 5 + epoch seconds, in descending order of score, repositories of
\* equal score in their input order.
Thm_C4 ==
    ( /\ pc = "selected"
      /\ Len(repos) >= FeaturedLimit
      /\ \A i \in 1..Len(repos) : ~IsManual(repos[i]) /\ ~IsTagged(repos[i]) )
    =>
        /\ Len(featured) = FeaturedLimit
        /\ \A i, j \in 1..Len(featured) :
              i < j => RanksBefore(featured[i], featured[j])
        /\ \A i \in 1..Len(repos) :
              ~InResult(repos[i]) => RanksBefore(featured[FeaturedLimit], repos[i])

\* 4 untagged, unlisted repositories: two of equal score lead the result, and
\* of two others of equal score the later one is left out
Witness_C4 ==
    /\ pc = "selected"
    /\ Len(repos) = 4
    /\ \A i \in 1..Len(repos) : ~IsManual(repos[i]) /\ ~IsTagged(repos[i])
    /\ ClaimScore(featured[1]) = ClaimScore(featured[2])
    /\ ClaimScore(featured[2]) > ClaimScore(featured[3])
    /\ Pos(featured[3]) < Pos(featured[1])
    /\ \E i \in 1..Len(repos) :
          ~InResult(repos[i]) /\ ClaimScore(repos[i]) = ClaimScore(featured[3])

(***************************************************************************)
(* Claims about the README snippet, checked under SpecSnippet              *)
(***************************************************************************)
\* the response carries a non-empty content field that is valid base64
HasReadableContent ==
    /\ response.kind = "http" /\ responseOk(response)
    /\ truthy(response.body)
    /\ ~atob(stripNewlines(response.body.text)).threw

\* the text the content field encodes
DecodedReadme == atob(stripNewlines(response.body.text)).text

\* the cleaned text of the README
CleanedReadme == cleanText(DecodedReadme)

\* no structural character, no whitespace but single spaces, none at the ends
IsClean(s) ==
    /\ \A i \in 1..Len(s) : s[i] \notin StructuralChars \cup {"\t", "\n", "\r"}
    /\ \A i \in 1..(Len(s) - 1) : ~(s[i] = " " /\ s[i + 1] = " ")
    /\ Len(s) > 0 => (s[1] # " " /\ s[Len(s)] # " ")

\* C10: the snippet has at most 201 characters; when the cleaned text of the
\* README has more than 200 characters the snippet is its first 200
\* characters followed by one ellipsis, otherwise it is the cleaned text
\* itself, without ellipsis; a response without content or with empty
\* content gives the empty snippet.
Thm_C10 ==
    pc = "snipped" =>
        /\ Len(snippet) <= SnippetLimit + 1
        /\ ~truthy(response.body) => snippet = <<>>
        /\ HasReadableContent =>
              /\ IsClean(CleanedReadme)
              /\ Len(CleanedReadme) > SnippetLimit =>
                    /\ Len(snippet) = SnippetLimit + 1
                    /\ SubSeq(snippet, 1, SnippetLimit)
                          = SubSeq(CleanedReadme, 1, SnippetLimit)
                    /\ snippet[SnippetLimit + 1] = Ellipsis
              /\ Len(CleanedReadme) <= SnippetLimit =>
                    /\ snippet = CleanedReadme
                    /\ \A i \in 1..Len(snippet) : snippet[i] # Ellipsis

\* app.js has cut a README whose cleaned text has 201 characters, and which
\* cleaning shortened, to 200 characters and the ellipsis
Witness_C10 ==
    /\ pc = "snipped" /\ variant = "app"
    /\ HasReadableContent
    /\ Len(DecodedReadme) > Len(CleanedReadme)
    /\ Len(CleanedReadme) = SnippetLimit + 1
    /\ Len(snippet) = SnippetLimit + 1
    /\ snippet[SnippetLimit + 1] = Ellipsis

(***************************************************************************)
(* Claims about the live link of a card, checked under SpecLink            *)
(***************************************************************************)
\* the repository of the card has a homepage that parses as an http(s) URL
HomepageIsValid ==
    /\ ~card[1].repo.homepage.isNull
    /\ isValidUrl(card[1].repo.homepage.text)

\* what the card says about the homepage being a genuine demo
CardFlag == IF variant = "app" THEN card[1].demoBadge ELSE card[1].hasHomepage

\* https://{owner}.github.io/{urlEncode(name)}/
PagesUrl ==
    <<"h","t","t","p","s",":","/","/">> \o USER
    \o <<".","g","i","t","h","u","b",".","i","o","/">>
    \o encodeURIComponent(card[1].repo.name) \o <<"/">>

\* the live control (click on the button, Enter or Space on the card) has
\* only ever opened the URL u
LiveOpensOnly(u) ==
    \A i \in 1..Len(opened) : opened[i].by \in {"live", "key"} => opened[i].url = u

\* C5: the card is flagged as a genuine demo exactly when the homepage is a
\* valid http(s) URL; the live control opens the homepage in that case and
\* the constructed address https://{owner}.github.io/{name}/ in every other
\* case; making the card and resolving the target sends no request.
CE_C5 ==
    pc = "shown" =>
        /\ CardFlag = HomepageIsValid
        /\ LiveOpensOnly(IF HomepageIsValid THEN card[1].repo.homepage.text
                         ELSE PagesUrl)
        /\ net = NoRequests /\ listRequests = 0 /\ readmeRequests = 0

\* C6: the live control opens the homepage when the repository has a valid
\* one, and the repository's GitHub page (html_url) when it has none or an
\* invalid one.
CE_C6 ==
    pc = "shown" =>
        LiveOpensOnly(IF HomepageIsValid THEN card[1].repo.homepage.text
                      ELSE card[1].repo.html_url)

\* C5 for the script of part_000 alone
C5_HoldsPatched == variant = "patched" => CE_C5

\* C6 for the script of app.js alone
C6_HoldsApp == variant = "app" => CE_C6

(***************************************************************************)
(* Claims about init() and its error handling, checked under Spec          *)
(***************************************************************************)
ListAnswered == listResponse.kind # "none"

\* the list request failed: no answer, or a status outside 200..299
ListFailed ==
    \/ listResponse.kind = "network"
    \/ (listResponse.kind = "http"
        /\ (listResponse.status < 200 \/ listResponse.status > 299))

ListRateLimited == listResponse.kind = "http" /\ listResponse.status = 403

IsFailureBanner(b) == b \in {GenericBanner, GenericBannerPatched}

\* the README request failed or its answer has no content
ReadmeUnavailable ==
    \/ response.kind = "network"
    \/ (response.kind = "http"
        /\ (response.status < 200 \/ response.status > 299 \/ ~truthy(response.body)))

\* C7: the rate-limit banner is on the page if and only if the list request
\* was answered with status 403; after any other failure of the list
\* request (another status outside 2xx, a network failure) the generic
\* failure banner is; a failed list request leaves exactly one banner.
Thm_C7 ==
    /\ (\E i \in 1..Len(banners) : banners[i] = RateLimitBanner) <=> ListRateLimited
    /\ ListFailed =>
          /\ Len(banners) = 1
          /\ IF ListRateLimited THEN banners[1] = RateLimitBanner
             ELSE IsFailureBanner(banners[1])

\* app.js has answered a 403 of the list endpoint with the rate-limit banner
Witness_C7 ==
    /\ variant = "app" /\ pc = "done"
    /\ ListRateLimited
    /\ banners = <<RateLimitBanner>>

\* C8: whenever a README request fails or its answer has no content the
\* snippet returned is empty; once the list request has succeeded no banner
\* appears whatever the README requests do, the render is not cut short, and
\* at its end there is a card for every repository of the list and for every
\* featured repository.
Thm_C8 ==
    /\ (response.kind # "none" /\ ReadmeUnavailable) => snippet = <<>>
    /\ (ListAnswered /\ ~ListFailed) =>
          /\ banners = <<>>
          /\ pc = "done" =>
                /\ Len(projects) = Len(listResponse.body.items)
                /\ \A j \in 1..Len(listResponse.body.items) :
                      \E i \in 1..Len(projects) :
                          projects[i].repo = listResponse.body.items[j]
                /\ Len(featuredGrid) = Min(FeaturedLimit, Len(listResponse.body.items))
                /\ \A i \in 1..Len(featuredGrid) : featuredGrid[i].repo = featured[i]

\* app.js has rendered two repositories: the README of the first was read,
\* the README request of the second was answered with 403
Witness_C8 ==
    /\ variant = "app" /\ pc = "done"
    /\ Len(projects) = 2
    /\ projects[1].snippet # <<>> /\ projects[2].snippet = <<>>
    /\ response.kind = "http" /\ response.status = 403
    /\ banners = <<>>

\* C9: once the list request has failed init() has ended and takes no
\* further step: no README request has been or will be sent, the list
\* request is not repeated, no section has a card, the project list is
\* empty and a banner is on the page.
Thm_C9 ==
    ListFailed =>
        /\ pc = "done" /\ ~ENABLED Next
        /\ net = NoRequests
        /\ readmeRequests = 0 /\ listRequests = 1
        /\ repos = <<>> /\ featured = <<>>
        /\ featuredGrid = <<>> /\ categories = <<>> /\ projects = <<>>
        /\ Len(banners) >= 1
        /\ banners[1] = RateLimitBanner \/ IsFailureBanner(banners[1])

\* part_000 has ended init() after a network failure of the list request
Witness_C9 ==
    /\ variant = "patched" /\ pc = "done"
    /\ listResponse = NetworkError
    /\ banners = <<GenericBannerPatched>>
    /\ readmeRequests = 0 /\ projects = <<>>

(***************************************************************************)
(* Claims about the order of requests and cards, checked under Spec        *)
(***************************************************************************)
\* the repositories the suspended loop goes through
SectionInput == IF section = "featured" THEN featured ELSE repos

\* the cards the suspended loop has appended
SectionCards == IF section = "featured" THEN featuredGrid ELSE projects

\* C11: at most one request is pending at any time; until the list request
\* is answered no README request has been sent and no card exists; a README
\* request is sent only when every earlier request has been answered and
\* its card appended, so the pending request is the one of the repository
\* that follows the cards of the section, and the cards of a section are in
\* the order of its repositories.
Thm_C11 ==
    /\ Cardinality(net) <= 1
    /\ (pc = "idle" \/ pc = "awaitList") =>
          /\ readmeRequests = 0
          /\ \A r \in net : r.endpoint = "list"
          /\ featuredGrid = <<>> /\ categories = <<>> /\ projects = <<>>
    /\ readmeRequests
          = Len(featuredGrid) + Len(projects) + (IF pc = "awaitReadme" THEN 1 ELSE 0)
    /\ pc = "awaitReadme" =>
          /\ Len(SectionCards) < Len(SectionInput)
          /\ net = { [endpoint |-> "readme",
                      name |-> SectionInput[Len(SectionCards) + 1].name] }
          /\ section = "featured" => projects = <<>>
          /\ section = "all" => Len(featuredGrid) = Len(featured)
    /\ Len(featuredGrid) <= Len(featured)
    /\ \A i \in 1..Len(featuredGrid) : featuredGrid[i].repo = featured[i]
    /\ Len(projects) <= Len(repos)
    /\ \A i \in 1..Len(projects) : projects[i].repo = repos[i]

\* the loop over all repositories waits for the README of its second
\* repository, which the API listed first: both featured cards and the
\* first project card are in place
Witness_C11 ==
    /\ pc = "awaitReadme" /\ section = "all" /\ idx = 2
    /\ Len(featuredGrid) = 2 /\ Len(projects) = 1
    /\ repos[2].id < repos[1].id
    /\ net = {[endpoint |-> "readme", name |-> repos[2].name]}
    /\ readmeRequests = 4

(***************************************************************************)
(* Claims about dates that do not parse, checked under SpecDates           *)
(***************************************************************************)
HasValidDate(r) == r.updated_at # NaN

PosInFeatured(r) == CHOOSE i \in 1..Len(featured) : featured[i].id = r.id

\* C12: a repository whose updated_at is no date counts as the least
\* recent.  After the sort of init() it comes after every repository with a
\* valid date, and those are in descending order of date, equal dates in the
\* order of the API, as they would be without it.  In the result of the
\* heuristic stage of pickFeatured it comes after every repository with a
\* valid date and as many or more stars, none of which is left out for it,
\* and the repositories with valid dates are ranked among themselves by
\* stars * 5 + epoch seconds as they would be without it.
CE_C12 ==
    /\ pc \in {"sorted", "picked"} =>
          \A i, j \in 1..Len(repos) :
              i < j =>
                 /\ ~HasValidDate(repos[i]) => ~HasValidDate(repos[j])
                 /\ (HasValidDate(repos[i]) /\ HasValidDate(repos[j])) =>
                       \/ repos[i].updated_at > repos[j].updated_at
                       \/ /\ repos[i].updated_at = repos[j].updated_at
                          /\ repos[i].id < repos[j].id
    /\ pc = "picked" =>
          /\ \A i \in 1..Len(featured) : \A j \in 1..Len(repos) :
                ( /\ ~HasValidDate(featured[i])
                  /\ HasValidDate(repos[j])
                  /\ repos[j].stargazers_count >= featured[i].stargazers_count )
                => (InResult(repos[j]) /\ PosInFeatured(repos[j]) < i)
          /\ \A i, j \in 1..Len(featured) :
                (i < j /\ HasValidDate(featured[i]) /\ HasValidDate(featured[j]))
                => RanksBefore(featured[i], featured[j])
          /\ \A i \in 1..Len(featured) : \A j \in 1..Len(repos) :
                ( /\ HasValidDate(featured[i])
                  /\ HasValidDate(repos[j])
                  /\ ~InResult(repos[j]) )
                => RanksBefore(featured[i], repos[j])

\* C12 on lists in which every date is valid
C12_HoldsOnValidDates ==
    (\A i \in 1..Len(repos) : HasValidDate(repos[i])) => CE_C12

====
